---- MODULE Spec2Model ----
(***************************************************************************)
(* 7-colour e-paper image converter: the colour-reduction core.            *)
(*                                                                         *)
(*   - ImageProcessor (src/image_processor.py): nearest-colour search and  *)
(*     the in-place six-tap error diffusion of diffuse_image.              *)
(*   - blend_palette and the palette branch of convert (src/convert.py and *)
(*     src/eink_image_pylettizer/convert.py).                              *)
(*                                                                         *)
(* A colour is a triple <<r, g, b>>.  A raster is a function from the      *)
(* positions <<x, y>> of its size <<width, height>> to colours.  A value   *)
(* handed to clamp is a multiple of 1/8 and exact as a float; it is kept   *)
(* as a numerator over a denominator.  The floats of blend_palette are     *)
(* computed as IEEE 754 doubles, with every operation's rounding.          *)
(***************************************************************************)
EXTENDS Integers, Sequences, FiniteSets, TLC

VARIABLES
    pc,              \* position in convert: "convert", "diffuse", "done"
    variant,         \* which convert module runs: "convert" or "pylettizer"
    use_km,          \* convert's use_km argument
    bw,              \* convert's bw argument
    saturation,      \* the blend ratio, <<numerator, denominator>>
    cache,           \* functools.cache of blend_palette: ratio -> palette
    palette,         \* the flat palette convert hands to putpalette
    target_palette,  \* ImageProcessor.TARGET_PALETTE of the instance
    size,            \* output.size, <<width, height>>
    image,           \* the raster diffuse_image mutates in place
    source,          \* the raster as it was handed to convert (history)
    x,               \* diffuse_image's inner loop variable
    y,               \* diffuse_image's outer loop variable
    visits           \* history: one [pos, old] per diffuse_pixel call, in order

vars == <<pc, variant, use_km, bw, saturation, cache, palette, target_palette,
          size, image, source, x, y, visits>>

(***************************************************************************)
(* Bounds of the model.                                                    *)
(***************************************************************************)
MaxWidth == 4
MaxHeight == 3

(***************************************************************************)
(* Palettes.                                                               *)
(***************************************************************************)
TARGET_PALETTE ==
    << <<12, 12, 14>>,      \* Black   0x0C 0x0C 0x0E
       <<210, 210, 208>>,   \* White   0xD2 0xD2 0xD0
       <<30, 96, 31>>,      \* Green   0x1E 0x60 0x1F
       <<29, 30, 170>>,     \* Blue    0x1D 0x1E 0xAA
       <<140, 27, 29>>,     \* Red     0x8C 0x1B 0x1D
       <<211, 201, 61>>,    \* Yellow  0xD3 0xC9 0x3D
       <<193, 113, 42>> >>  \* Orange  0xC1 0x71 0x2A

OG_BW_PALETTE == <<0, 0, 0, 255, 255, 255>>
LIMITED_BW_PALETTE == <<16, 16, 16, 240, 240, 240>>
FROM_PHOTO_PALETTE ==
    <<42, 45, 63, 227, 227, 227, 77, 111, 86, 57, 69, 107,
      168, 85, 81, 222, 206, 95, 195, 104, 86>>
ALMOST_DATASHEET_PALETTE ==
    <<0, 0, 0, 255, 255, 255, 45, 101, 67, 63, 62, 105,
      144, 61, 63, 167, 161, 72, 157, 83, 65>>
OG_PALETTE ==
    <<0, 0, 0, 255, 255, 255, 0, 255, 0, 0, 0, 255,
      255, 0, 0, 255, 255, 0, 255, 128, 0>>

\* "selected palettes" of each module
BW_PALETTE(v) == IF v = "convert" THEN OG_BW_PALETTE ELSE LIMITED_BW_PALETTE
SATURATED_PALETTE(v) ==
    IF v = "convert" THEN ALMOST_DATASHEET_PALETTE ELSE FROM_PHOTO_PALETTE

(***************************************************************************)
(* ImageProcessor: nearest colour.                                         *)
(***************************************************************************)
euclidean_distance(source_colour, target_colour) ==
    LET red_diff == source_colour[1] - target_colour[1]
        green_diff == source_colour[2] - target_colour[2]
        blue_diff == source_colour[3] - target_colour[3]
    IN (red_diff * red_diff) + (blue_diff * blue_diff) + (green_diff * green_diff)

\* An i64 of the code, v >= 0, as three 21-bit limbs, most significant first:
\* v = i[1] * 2^42 + i[2] * 2^21 + i[3].  i64(n) is the i64 of an integer n
\* with 0 <= n < 2^31.
i64(n) == <<0, n \div 2^21, n % 2^21>>

\* a < b and a <= b on i64 values.
i64_less(a, b) ==
    \/ a[1] < b[1]
    \/ a[1] = b[1] /\ a[2] < b[2]
    \/ a[1] = b[1] /\ a[2] = b[2] /\ a[3] < b[3]

i64_leq(a, b) == a = b \/ i64_less(a, b)

\* sys.maxsize = 2^63 - 1 = 9223372036854775807, the initial best_distance:
\* all 63 bits set, so every limb is 2^21 - 1.
maxsize == <<2^21 - 1, 2^21 - 1, 2^21 - 1>>

\* Mutant of closest_loop: the comparison is <=, so of several candidates at
\* the minimal distance the last one wins.
RECURSIVE closest_loop_last_wins(_, _, _, _, _)
closest_loop_last_wins(pal, old_pixel, k, best_candidate, best_distance) ==
    IF k > Len(pal) THEN best_candidate
    ELSE LET candidate == pal[k]
             candidate_distance == i64(euclidean_distance(old_pixel, candidate))
         IN IF i64_leq(candidate_distance, best_distance)
            THEN closest_loop_last_wins(pal, old_pixel, k + 1, candidate, candidate_distance)
            ELSE closest_loop_last_wins(pal, old_pixel, k + 1, best_candidate, best_distance)

\* The for loop of get_closest_colour from candidate k on, carrying
\* best_candidate and best_distance.
RECURSIVE closest_loop(_, _, _, _, _)
closest_loop(pal, old_pixel, k, best_candidate, best_distance) ==
    IF k > Len(pal) THEN best_candidate
    ELSE LET candidate == pal[k]
             candidate_distance == i64(euclidean_distance(old_pixel, candidate))
         IN IF i64_less(candidate_distance, best_distance)
            THEN closest_loop(pal, old_pixel, k + 1, candidate, candidate_distance)
            ELSE closest_loop(pal, old_pixel, k + 1, best_candidate, best_distance)

get_closest_colour(pal, old_pixel) ==
    closest_loop(pal, old_pixel, 1, pal[1], maxsize)

(***************************************************************************)
(* ImageProcessor: error distribution.                                     *)
(***************************************************************************)
is_in_bounds(sz, px, py) == 0 <= px /\ px < sz[1] /\ 0 <= py /\ py < sz[2]

\* Mutant of clamp: the test against 255 is missing.
clamp_no_upper(num, den) ==
    IF num < 0 THEN 0
    ELSE num \div den

\* Mutant of clamp: a value inside [0, 255] is rounded to the nearest integer.
clamp_nearest(num, den) ==
    IF num > 255 * den THEN 255
    ELSE IF num < 0 THEN 0
    ELSE (2 * num + den) \div (2 * den)

\* clamp(value) for value = num / den, den > 0.  u8(value) of a float in
\* [0, 255] drops the fraction.
clamp(num, den) ==
    IF num > 255 * den THEN 255
    ELSE IF num < 0 THEN 0
    ELSE num \div den

\* Mutant of adjusted_channel: the error is divided by 16.
adjusted_channel_sixteenth(old_c, new_c, diffused_c) ==
    clamp(16 * diffused_c + (old_c - new_c), 16)

\* Mutant of adjusted_channel: the arguments are mixed up, the error is taken
\* between the neighbour and the new pixel and added to the old pixel.
adjusted_channel_mixed_up(old_c, new_c, diffused_c) ==
    clamp(8 * old_c + (diffused_c - new_c), 8)

\* One channel of calculate_adjusted_rgb: diffused + (old - new) / 8.
adjusted_channel(old_c, new_c, diffused_c) ==
    clamp(8 * diffused_c + (old_c - new_c), 8)

calculate_adjusted_rgb(old_rgb, new_rgb, diffused_rgb) ==
    << adjusted_channel(old_rgb[1], new_rgb[1], diffused_rgb[1]),
       adjusted_channel(old_rgb[2], new_rgb[2], diffused_rgb[2]),
       adjusted_channel(old_rgb[3], new_rgb[3], diffused_rgb[3]) >>

putpixel(output, pos, value) == [output EXCEPT ![pos] = value]

\* Mutant of distribute_error: a seventh tap on the pixel to the left, (x-1, y).
distribute_error_left_tap(output, sz, old_pixel, new_pixel, px, py) ==
    LET x_plus_1 == is_in_bounds(sz, px + 1, py)
        y_plus_1 == is_in_bounds(sz, px, py + 1)
        adj(o, pos) == putpixel(o, pos, calculate_adjusted_rgb(old_pixel, new_pixel, o[pos]))
        o0 == IF is_in_bounds(sz, px - 1, py) THEN adj(output, <<px - 1, py>>) ELSE output
        o1 == IF x_plus_1 THEN adj(o0, <<px + 1, py>>) ELSE o0
        o2 == IF is_in_bounds(sz, px + 2, py) THEN adj(o1, <<px + 2, py>>) ELSE o1
        o3 == IF is_in_bounds(sz, px - 1, py + 1) THEN adj(o2, <<px - 1, py + 1>>) ELSE o2
        o4 == IF y_plus_1 THEN adj(o3, <<px, py + 1>>) ELSE o3
        o5 == IF is_in_bounds(sz, px, py + 2) THEN adj(o4, <<px, py + 2>>) ELSE o4
        o6 == IF x_plus_1 /\ y_plus_1 THEN adj(o5, <<px + 1, py + 1>>) ELSE o5
    IN o6

\* Mutant of distribute_error: the tap two rows below, (x, y+2), is missing.
distribute_error_five_taps(output, sz, old_pixel, new_pixel, px, py) ==
    LET x_plus_1 == is_in_bounds(sz, px + 1, py)
        y_plus_1 == is_in_bounds(sz, px, py + 1)
        adj(o, pos) == putpixel(o, pos, calculate_adjusted_rgb(old_pixel, new_pixel, o[pos]))
        o1 == IF x_plus_1 THEN adj(output, <<px + 1, py>>) ELSE output
        o2 == IF is_in_bounds(sz, px + 2, py) THEN adj(o1, <<px + 2, py>>) ELSE o1
        o3 == IF is_in_bounds(sz, px - 1, py + 1) THEN adj(o2, <<px - 1, py + 1>>) ELSE o2
        o4 == IF y_plus_1 THEN adj(o3, <<px, py + 1>>) ELSE o3
        o6 == IF x_plus_1 /\ y_plus_1 THEN adj(o4, <<px + 1, py + 1>>) ELSE o4
    IN o6

\* Mutant of distribute_error: no bounds checks, the six offsets wrap around
\* the raster's edges.
distribute_error_wrap(output, sz, old_pixel, new_pixel, px, py) ==
    LET wrap(qx, qy) == <<qx % sz[1], qy % sz[2]>>
        adj(o, pos) == putpixel(o, pos, calculate_adjusted_rgb(old_pixel, new_pixel, o[pos]))
        o1 == adj(output, wrap(px + 1, py))
        o2 == adj(o1, wrap(px + 2, py))
        o3 == adj(o2, wrap(px - 1, py + 1))
        o4 == adj(o3, wrap(px, py + 1))
        o5 == adj(o4, wrap(px, py + 2))
        o6 == adj(o5, wrap(px + 1, py + 1))
    IN o6

distribute_error(output, sz, old_pixel, new_pixel, px, py) ==
    LET x_plus_1 == is_in_bounds(sz, px + 1, py)
        y_plus_1 == is_in_bounds(sz, px, py + 1)
        adj(o, pos) == putpixel(o, pos, calculate_adjusted_rgb(old_pixel, new_pixel, o[pos]))
        o1 == IF x_plus_1 THEN adj(output, <<px + 1, py>>) ELSE output
        o2 == IF is_in_bounds(sz, px + 2, py) THEN adj(o1, <<px + 2, py>>) ELSE o1
        o3 == IF is_in_bounds(sz, px - 1, py + 1) THEN adj(o2, <<px - 1, py + 1>>) ELSE o2
        o4 == IF y_plus_1 THEN adj(o3, <<px, py + 1>>) ELSE o3
        o5 == IF is_in_bounds(sz, px, py + 2) THEN adj(o4, <<px, py + 2>>) ELSE o4
        o6 == IF x_plus_1 /\ y_plus_1 THEN adj(o5, <<px + 1, py + 1>>) ELSE o5
    IN o6

diffuse_pixel(output, sz, pal, px, py) ==
    LET old_pixel == output[<<px, py>>]
        new_pixel == get_closest_colour(pal, old_pixel)
    IN distribute_error(putpixel(output, <<px, py>>, new_pixel), sz,
                        old_pixel, new_pixel, px, py)

(***************************************************************************)
(* blend_palette.                                                          *)
(***************************************************************************)
\* palette[x : x + 3] for x in range(0, len(palette), 3): a length that is not
\* a multiple of 3 leaves a last, shorter chunk.
split_palette(p) ==
    [i \in 1..((Len(p) + 2) \div 3) |->
        SubSeq(p, 3 * i - 2, IF 3 * i <= Len(p) THEN 3 * i ELSE Len(p))]

(***************************************************************************)
(* Binary floating point.  Python's float is an IEEE 754 double: 53        *)
(* significant bits, every operation rounded to the nearest double, a tie  *)
(* to the even one.  A double v is held exactly, as a sign and the natural *)
(* number |v| * 2^90; a natural number is a sequence of 15-bit limbs,      *)
(* least significant first, with no leading zero limb (zero is <<>>).      *)
(* Doubles of magnitude below 2^-37 other than zero, infinities and NaN    *)
(* are outside the representation.                                         *)
(***************************************************************************)
Limb == 2^15

RECURSIVE NatNorm(_)
NatNorm(a) ==
    IF a = <<>> THEN <<>>
    ELSE IF a[Len(a)] = 0 THEN NatNorm(SubSeq(a, 1, Len(a) - 1))
    ELSE a

\* The natural number of an integer n >= 0.
RECURSIVE NatOf(_)
NatOf(n) == IF n = 0 THEN <<>> ELSE <<n % Limb>> \o NatOf(n \div Limb)

\* The integer of a natural number below 2^31.
RECURSIVE NatValue(_)
NatValue(a) ==
    IF a = <<>> THEN 0 ELSE a[1] + Limb * NatValue(SubSeq(a, 2, Len(a)))

NatLimb(a, i) == IF i <= Len(a) THEN a[i] ELSE 0

\* a * m for an integer 0 <= m <= 2^15.
RECURSIVE NatMulCarry(_, _, _, _)
NatMulCarry(a, m, i, carry) ==
    IF i > Len(a) THEN NatOf(carry)
    ELSE LET t == a[i] * m + carry
         IN <<t % Limb>> \o NatMulCarry(a, m, i + 1, t \div Limb)

NatMul(a, m) == NatNorm(NatMulCarry(a, m, 1, 0))

RECURSIVE NatAddCarry(_, _, _, _)
NatAddCarry(a, b, i, carry) ==
    IF i > Len(a) /\ i > Len(b) THEN NatOf(carry)
    ELSE LET t == NatLimb(a, i) + NatLimb(b, i) + carry
         IN <<t % Limb>> \o NatAddCarry(a, b, i + 1, t \div Limb)

NatAdd(a, b) == NatNorm(NatAddCarry(a, b, 1, 0))

\* a - b for a >= b.
RECURSIVE NatSubBorrow(_, _, _, _)
NatSubBorrow(a, b, i, borrow) ==
    IF i > Len(a) THEN <<>>
    ELSE LET t == a[i] - NatLimb(b, i) - borrow
         IN IF t < 0
            THEN <<t + Limb>> \o NatSubBorrow(a, b, i + 1, 1)
            ELSE <<t>> \o NatSubBorrow(a, b, i + 1, 0)

NatSub(a, b) == NatNorm(NatSubBorrow(a, b, 1, 0))

\* a < b, comparing from limb i down.
RECURSIVE NatLessFrom(_, _, _)
NatLessFrom(a, b, i) ==
    IF i = 0 THEN FALSE
    ELSE IF a[i] # b[i] THEN a[i] < b[i]
    ELSE NatLessFrom(a, b, i - 1)

NatLess(a, b) ==
    IF Len(a) # Len(b) THEN Len(a) < Len(b) ELSE NatLessFrom(a, b, Len(a))

\* Quotient and remainder of a by an integer 0 < m <= 2^15, from limb i down
\* with remainder rem carried in.
RECURSIVE NatDivFrom(_, _, _, _)
NatDivFrom(a, m, i, rem) ==
    IF i = 0 THEN [q |-> <<>>, r |-> rem]
    ELSE LET cur == rem * Limb + a[i]
             rest == NatDivFrom(a, m, i - 1, cur % m)
         IN [q |-> rest.q \o <<cur \div m>>, r |-> rest.r]

NatDiv(a, m) ==
    LET qr == NatDivFrom(a, m, Len(a), 0)
    IN [q |-> NatNorm(qr.q), r |-> qr.r]

\* a * 2^(15 * n)
NatShift(a, n) == IF a = <<>> THEN <<>> ELSE [i \in 1..n |-> 0] \o a

RECURSIVE IntBitLen(_)
IntBitLen(n) == IF n = 0 THEN 0 ELSE 1 + IntBitLen(n \div 2)

NatBitLen(a) ==
    IF a = <<>> THEN 0 ELSE 15 * (Len(a) - 1) + IntBitLen(a[Len(a)])

\* The natural number with at most 53 significant bits nearest to a (to
\* a + 1/2 when sticky: a value strictly between a and a + 1), a tie going to
\* the one whose 53rd bit is even.
NatRound53(a, sticky) ==
    LET k == NatBitLen(a) - 53
        q == k \div 15
        r == k % 15
        kept == NatDiv(SubSeq(a, q + 1, Len(a)), 2^r)
        below(n) == sticky \/ \E i \in 1..n : a[i] # 0
        \* the dropped part against one half of the last kept bit: -1, 0, 1
        side == IF r >= 1
                THEN IF kept.r > 2^(r - 1) THEN 1
                     ELSE IF kept.r < 2^(r - 1) THEN -1
                     ELSE IF below(q) THEN 1 ELSE 0
                ELSE IF a[q] > 2^14 THEN 1
                     ELSE IF a[q] < 2^14 THEN -1
                     ELSE IF below(q - 1) THEN 1 ELSE 0
        up == side = 1 \/ (side = 0 /\ NatLimb(kept.q, 1) % 2 = 1)
        m == IF up THEN NatAdd(kept.q, <<1>>) ELSE kept.q
    IN IF k <= 0 THEN a ELSE NatShift(NatMul(m, 2^r), q)

FloatOne == [neg |-> FALSE, mag |-> NatShift(<<1>>, 6)]

\* n / d for integers n and 0 < d <= 2^15: Python's true division, correctly
\* rounded.
float_div(n, d) ==
    LET qr == NatDiv(NatShift(NatOf(IF n < 0 THEN -n ELSE n), 6), d)
    IN [neg |-> n < 0, mag |-> NatRound53(qr.q, qr.r # 0)]

\* a + b
float_add(a, b) ==
    IF a.neg = b.neg
    THEN [neg |-> a.neg, mag |-> NatRound53(NatAdd(a.mag, b.mag), FALSE)]
    ELSE IF NatLess(a.mag, b.mag)
    THEN [neg |-> b.neg, mag |-> NatRound53(NatSub(b.mag, a.mag), FALSE)]
    ELSE [neg |-> a.neg, mag |-> NatRound53(NatSub(a.mag, b.mag), FALSE)]

\* a - b
float_sub(a, b) == float_add(a, [neg |-> ~b.neg, mag |-> b.mag])

\* c * a for an integer c, |c| <= 2^15 (the int is converted exactly).
float_mul(c, a) ==
    [neg |-> (c < 0) # a.neg,
     mag |-> NatRound53(NatMul(a.mag, IF c < 0 THEN -c ELSE c), FALSE)]

\* round(a): to the nearest integer, a half to the even one.
round(a) ==
    LET whole == NatValue(SubSeq(a.mag, 7, Len(a.mag)))
        top == NatLimb(a.mag, 6)
        below == \E i \in 1..5 : NatLimb(a.mag, i) # 0
        up == \/ top > 2^14
              \/ top = 2^14 /\ below
              \/ top = 2^14 /\ ~below /\ whole % 2 = 1
        n == IF up THEN whole + 1 ELSE whole
    IN IF a.neg THEN -n ELSE n

\* Mutant of blend_channel: the two weights are exchanged.
blend_channel_swapped(cs, cd, sat) ==
    LET s == float_div(sat[1], sat[2])
    IN round(float_add(float_mul(cd, s), float_mul(cs, float_sub(FloatOne, s))))

\* One channel: round(cs * saturation + cd * (1 - saturation)), where the
\* ratio <<n, d>> is the double n / d.
blend_channel(cs, cd, sat) ==
    LET s == float_div(sat[1], sat[2])
    IN round(float_add(float_mul(cs, s), float_mul(cd, float_sub(FloatOne, s))))

RECURSIVE blend_loop(_, _, _)
blend_loop(v, sat, i) ==
    IF i > 7 THEN <<>>
    ELSE LET s == split_palette(SATURATED_PALETTE(v))[i]
             d == split_palette(OG_PALETTE)[i]
         IN << blend_channel(s[1], d[1], sat),
               blend_channel(s[2], d[2], sat),
               blend_channel(s[3], d[3], sat) >> \o blend_loop(v, sat, i + 1)

blend_palette(v, sat) == blend_loop(v, sat, 1)

(***************************************************************************)
(* Inputs.                                                                 *)
(***************************************************************************)
Positions(sz) == (0..(sz[1] - 1)) \X (0..(sz[2] - 1))

Sizes == (1..MaxWidth) \X (1..MaxHeight)

\* Input colours: mid grey, full white, full black, a colour at equal
\* distance (4321) from TARGET_PALETTE's Black and Red, and TARGET_PALETTE's
\* White itself.
Colours ==
    { <<200, 200, 200>>, <<255, 255, 255>>, <<0, 0, 0>>, <<76, 27, 14>>,
      <<210, 210, 208>> }

\* Rasters of one background colour with at most one pixel of another.
Rasters(sz) ==
    { [p \in Positions(sz) |-> IF p = q THEN fg ELSE bg] :
        q \in Positions(sz), fg \in Colours, bg \in Colours }

\* Rasters already made of entries of TARGET_PALETTE (Black and Orange), such
\* as an earlier diffuse_image run leaves behind: one background entry with at
\* most one pixel of the other.
PaletteRasters(sz) ==
    { [p \in Positions(sz) |-> IF p = q THEN fg ELSE bg] :
        q \in Positions(sz),
        fg \in {TARGET_PALETTE[1], TARGET_PALETTE[7]},
        bg \in {TARGET_PALETTE[1], TARGET_PALETTE[7]} }

UniformRasters(sz) ==
    { [p \in Positions(sz) |-> bg] : bg \in Colours }

\* Blend ratios <<numerator, denominator>>, each the double n / d: 0, 1, the
\* program's 1/3, and ratios inside and outside [0, 1], among them 7/10 and
\* 11/10, where the rounded double arithmetic and the exact fraction differ.
Ratios ==
    { <<0, 1>>, <<1, 1>>, <<1, 3>>, <<1, 2>>, <<1, 4>>, <<3, 2>>, <<2, 1>>,
      <<-1, 2>>, <<7, 10>>, <<11, 10>> }

NoPalette == <<>>
NoCache == [r \in {} |-> <<>>]

(***************************************************************************)
(* The state machine: one call of convert.                                 *)
(***************************************************************************)
Init ==
    /\ pc = "convert"
    /\ variant \in {"convert", "pylettizer"}
    /\ use_km \in BOOLEAN
    /\ bw \in BOOLEAN
    /\ size \in Sizes
    /\ IF use_km /\ ~bw
       THEN /\ source \in Rasters(size) \cup PaletteRasters(size)
            /\ saturation = <<1, 3>>
            /\ cache = NoCache
            /\ target_palette = TARGET_PALETTE
       ELSE /\ source \in UniformRasters(size)
            /\ saturation \in Ratios
            /\ cache \in {NoCache, [r \in {saturation} |-> blend_palette(variant, r)]}
            /\ target_palette = TARGET_PALETTE
    /\ image = source
    /\ palette = NoPalette
    /\ x = 0
    /\ y = 0
    /\ visits = <<>>

\* convert, use_km branch: IMAGE_PROCESSOR.diffuse_image(resized_image) is
\* entered; its loops start at y = 0, x = 0.
ConvertDiffuse ==
    /\ pc = "convert"
    /\ use_km /\ ~bw
    /\ pc' = "diffuse"
    /\ x' = 0
    /\ y' = 0
    /\ UNCHANGED <<variant, use_km, bw, saturation, cache, palette,
                   target_palette, size, image, source, visits>>

\* One iteration of diffuse_image's inner loop: diffuse_pixel(source_image, x, y),
\* then the loop variables advance.
DiffusePixel ==
    /\ pc = "diffuse"
    /\ y < size[2]
    /\ x < size[1]
    /\ image' = diffuse_pixel(image, size, target_palette, x, y)
    /\ visits' = Append(visits, [pos |-> <<x, y>>, old |-> image[<<x, y>>]])
    /\ IF x + 1 < size[1]
       THEN x' = x + 1 /\ y' = y
       ELSE x' = 0 /\ y' = y + 1
    /\ UNCHANGED <<pc, variant, use_km, bw, saturation, cache, palette,
                   target_palette, size, source>>

\* diffuse_image's loops are exhausted: it returns, quantized_image is the
\* same raster.
DiffuseReturn ==
    /\ pc = "diffuse"
    /\ y >= size[2]
    /\ pc' = "done"
    /\ UNCHANGED <<variant, use_km, bw, saturation, cache, palette,
                   target_palette, size, image, source, x, y, visits>>

\* convert, palette branch: the palette is BW_PALETTE or blend_palette(ratio),
\* the latter through functools.cache.  The quantisation itself is Pillow's
\* Image.quantize, which is not part of the repository.
ConvertPalette ==
    /\ pc = "convert"
    /\ ~(use_km /\ ~bw)
    /\ IF bw
       THEN /\ palette' = BW_PALETTE(variant)
            /\ cache' = cache
       ELSE IF saturation \in DOMAIN cache
       THEN /\ palette' = cache[saturation]
            /\ cache' = cache
       ELSE /\ palette' = blend_palette(variant, saturation)
            /\ cache' = [r \in DOMAIN cache \cup {saturation} |->
                            IF r \in DOMAIN cache THEN cache[r]
                            ELSE blend_palette(variant, saturation)]
    /\ pc' = "done"
    /\ UNCHANGED <<variant, use_km, bw, saturation, target_palette, size,
                   image, source, x, y, visits>>

Next ==
    \/ ConvertDiffuse
    \/ DiffusePixel
    \/ DiffuseReturn
    \/ ConvertPalette

Spec == Init /\ [][Next]_vars

(***************************************************************************)
(* Vocabulary of the properties.                                           *)
(***************************************************************************)
Dithering == use_km /\ ~bw

\* Row-major rank of a position, 0 for <<0, 0>>.
Rank(sz, pos) == pos[2] * sz[1] + pos[1]

Visited == { visits[i].pos : i \in DOMAIN visits }

Entries(pal) == { pal[k] : k \in DOMAIN pal }

\* The six neighbours of <<px, py>> that lie inside the raster.
Kernel(sz, px, py) ==
    { p \in { <<px + 1, py>>, <<px + 2, py>>, <<px - 1, py + 1>>,
              <<px, py + 1>>, <<px + 1, py + 1>>, <<px, py + 2>> } :
          p[1] \in 0..(sz[1] - 1) /\ p[2] \in 0..(sz[2] - 1) }

Changed == { p \in DOMAIN image : image'[p] # image[p] }

(***************************************************************************)
(* C1.  diffuse_image visits every pixel exactly once, in row-major order  *)
(* (y ascending, then x ascending); a diffuse_pixel step at (x, y) changes *)
(* no pixel that comes before (x, y) in that order, so a visited pixel     *)
(* keeps its value; every visited pixel, and on return every pixel of the  *)
(* raster, is an entry of the palette.                                     *)
(***************************************************************************)
C1_Order ==
    /\ \A i \in DOMAIN visits : Rank(size, visits[i].pos) = i - 1
    /\ \A i \in DOMAIN visits : visits[i].pos \in Positions(size)
    /\ \A p \in Visited : image[p] \in Entries(target_palette)
    /\ (pc = "done" /\ Dithering) =>
          /\ Len(visits) = size[1] * size[2]
          /\ \A p \in DOMAIN image : image[p] \in Entries(target_palette)

C1_Step ==
    /\ \A p \in Changed : Rank(size, p) >= Rank(size, <<x, y>>)
    /\ \A p \in Changed \ {<<x, y>>} : Rank(size, p) > Rank(size, <<x, y>>)
    /\ \A p \in Visited : image'[p] = image[p]
    /\ \A p \in Visited' : image'[p] \in Entries(target_palette)

C1_RasterScan == [](C1_Order) /\ [][C1_Step]_vars

\* A 4 x 3 dithering run has returned and some pixel was replaced by another colour.
C1_Witness ==
    /\ pc = "done" /\ Dithering
    /\ size = <<MaxWidth, MaxHeight>>
    /\ Len(visits) = MaxWidth * MaxHeight
    /\ \E p \in DOMAIN image : image[p] # source[p]

(***************************************************************************)
(* C2.  A diffuse_pixel step at (x, y) changes only (x, y) and those of    *)
(* the six neighbours (x+1,y), (x+2,y), (x-1,y+1), (x,y+1), (x+1,y+1),     *)
(* (x,y+2) that lie inside the raster; the raster keeps its positions.  On *)
(* a 1 x 1 raster the step replaces the pixel by its nearest palette       *)
(* colour.                                                                 *)
(***************************************************************************)
C2_Step ==
    /\ DOMAIN image' = DOMAIN image
    /\ DOMAIN image' = Positions(size)
    /\ Changed \subseteq ({<<x, y>>} \cup Kernel(size, x, y))
    /\ (pc = "diffuse" /\ size = <<1, 1>> /\ visits = <<>>) =>
          \E k \in DOMAIN target_palette :
              /\ image'[<<0, 0>>] = target_palette[k]
              /\ \A j \in DOMAIN target_palette :
                    euclidean_distance(image[<<0, 0>>], target_palette[k])
                       <= euclidean_distance(image[<<0, 0>>], target_palette[j])

C2_Frame == [][C2_Step]_vars

\* The first pixel of a full-size raster has just been diffused: its offset
\* (x-1, y+1) fell outside, the pixel and its five neighbours inside were all
\* changed, and nothing else was.
C2_Witness ==
    /\ size = <<MaxWidth, MaxHeight>>
    /\ Len(visits) = 1
    /\ Cardinality(Kernel(size, 0, 0)) = 5
    /\ \A p \in Kernel(size, 0, 0) \cup {<<0, 0>>} : image[p] # source[p]
    /\ \A p \in DOMAIN image \ (Kernel(size, 0, 0) \cup {<<0, 0>>}) :
          image[p] = source[p]

(***************************************************************************)
(* C3.  get_closest_colour returns a palette entry at minimal squared      *)
(* distance from its argument, and of the entries at that distance the     *)
(* first in palette order; an argument that is a palette entry is returned *)
(* unchanged.                                                              *)
(***************************************************************************)
\* The index the claim names: minimal distance, no earlier entry as close.
FirstNearest(pal, c) ==
    CHOOSE k \in DOMAIN pal :
        /\ \A j \in DOMAIN pal :
              euclidean_distance(c, pal[k]) <= euclidean_distance(c, pal[j])
        /\ \A j \in 1..(k - 1) :
              euclidean_distance(c, pal[j]) > euclidean_distance(c, pal[k])

C3_Nearest ==
    \A i \in DOMAIN visits :
        LET old == visits[i].old
            new == image[visits[i].pos]
        IN /\ new = target_palette[FirstNearest(target_palette, old)]
           /\ old \in Entries(target_palette) => new = old

\* A visited pixel held a colour at equal, minimal distance from two different
\* palette entries; another visited pixel held a palette entry.
C3_Witness ==
    /\ \E i \in DOMAIN visits :
          \E j, k \in DOMAIN target_palette :
              /\ j < k
              /\ target_palette[j] # target_palette[k]
              /\ j = FirstNearest(target_palette, visits[i].old)
              /\ euclidean_distance(visits[i].old, target_palette[j])
                    = euclidean_distance(visits[i].old, target_palette[k])
    /\ \E i \in DOMAIN visits : visits[i].old \in Entries(target_palette)

(***************************************************************************)
(* C4.  The channel calculate_adjusted_rgb writes for a neighbour holding  *)
(* d, with error e = old - new, is clamp(d + e/8): 0 below 0, 255 above    *)
(* 255.  As amended: a value in between is cut to its integer part (the    *)
(* fraction is dropped), not rounded to the nearest integer.               *)
(***************************************************************************)
\* A diffuse_pixel call happens in this step.
PixelStep == visits' # visits

\* d + e/8 in eighths, for neighbour q and channel c of the step at (x, y).
Eighths(q, c) == 8 * image[q][c] + (image[<<x, y>>][c] - image'[<<x, y>>][c])

C4_StepFloor ==
    PixelStep =>
       \A q \in Kernel(size, x, y) : \A c \in 1..3 :
          LET v == Eighths(q, c)
              r == image'[q][c]
          IN /\ v < 0 => r = 0
             /\ v > 8 * 255 => r = 255
             /\ (0 <= v /\ v <= 8 * 255) => (8 * r <= v /\ v < 8 * r + 8)

C4_Truncates == [][C4_StepFloor]_vars

\* The claim as stated: a value in between goes to a nearest integer.
C4_StepNearest ==
    PixelStep =>
       \A q \in Kernel(size, x, y) : \A c \in 1..3 :
          LET v == Eighths(q, c)
              r == image'[q][c]
          IN /\ v < 0 => r = 0
             /\ v > 8 * 255 => r = 255
             /\ (0 <= v /\ v <= 8 * 255) => (8 * r - 4 <= v /\ v <= 8 * r + 4)

C4_RoundsToNearest == [][C4_StepNearest]_vars

\* The right neighbour of the first pixel received a value with a fraction
\* above one half (such as 205.625 = 200 + 45/8) and holds its integer part.
C4_Witness ==
    /\ Len(visits) = 1
    /\ size[1] >= 2
    /\ \E c \in 1..3 :
          LET v == 8 * source[<<1, 0>>][c] + (visits[1].old[c] - image[<<0, 0>>][c])
          IN /\ 0 <= v /\ v <= 8 * 255
             /\ v % 8 > 4
             /\ image[<<1, 0>>][c] = v \div 8

(***************************************************************************)
(* C5.  One row of four pixels, all (200,200,200).  The claim supposes the *)
(* palette [(0,0,0), (255,255,255)]; diffuse_image takes no palette and    *)
(* always uses the seven entries of ImageProcessor.TARGET_PALETTE, so the  *)
(* claim is read on the run the program makes on that raster: pixel 0      *)
(* becomes (255,255,255) and pixels 1 and 2 each hold (193,193,193) when   *)
(* visited.  As amended: pixel 0 becomes TARGET_PALETTE's White            *)
(* (210,210,208), the error is (-10,-10,-8), pixels 1 and 2 each hold      *)
(* (198,198,199) after pixel 0's step, pixel 1 still holds it when it is   *)
(* visited, and pixel 2 holds (196,196,197) when it is visited, pixel 1's  *)
(* error (-12,-12,-9) / 8 having been added by then.                       *)
(***************************************************************************)
Grey(v) == <<v, v, v>>

Scenario ==
    /\ Dithering
    /\ size = <<4, 1>>
    /\ source = [p \in Positions(<<4, 1>>) |-> Grey(200)]

Blended == pc = "done" /\ ~Dithering /\ ~bw

C6_BlendIdentity ==
    Blended =>
       /\ saturation = <<0, 1>> => palette = OG_PALETTE
       /\ saturation = <<1, 1>> => palette = SATURATED_PALETTE(variant)
       /\ saturation \in {<<0, 1>>, <<1, 1>>} =>
             (Len(palette) = 3 * 7 /\ Len(split_palette(palette)) = 7)

\* A blend at ratio 1 was returned, is held by the cache, and differs from the
\* anchor palette.
C6_Witness ==
    /\ Blended
    /\ saturation = <<1, 1>>
    /\ palette # OG_PALETTE
    /\ palette = cache[saturation]
    /\ palette[3 * 7] = SATURATED_PALETTE(variant)[3 * 7]

(***************************************************************************)
(* C7.  For every ratio, also outside [0, 1], the palette blend_palette    *)
(* returns has every channel in [0, 255].                                  *)
(***************************************************************************)
C7_PaletteInRange ==
    (pc = "done" /\ ~Dithering) =>
       \A i \in DOMAIN palette : palette[i] \in 0..255

(***************************************************************************)
(* C9.  The value a pixel holds when visited is its original value after   *)
(* one update clamp(current + (old_s - new_s)/8) per in-bounds source s    *)
(* among (x,y-2), (x-1,y-1), (x,y-1), (x+1,y-1), (x-2,y), (x-1,y), applied *)
(* in scan order of the sources, each on the result of the one before; all *)
(* of them are visited before the pixel is.  A pixel not yet visited holds *)
(* the updates of those of its sources visited so far.                     *)
(***************************************************************************)
Sources(p) ==
    << <<p[1], p[2] - 2>>, <<p[1] - 1, p[2] - 1>>, <<p[1], p[2] - 1>>,
       <<p[1] + 1, p[2] - 1>>, <<p[1] - 2, p[2]>>, <<p[1] - 1, p[2]>> >>

\* The visit of position s: visits are in row-major order (first conjunct of
\* C9_Sequential), so it is the visit numbered by the rank of s.
VisitOf(s) == Rank(size, s) + 1

WasVisited(s) == VisitOf(s) <= Len(visits)

Update(current, old_s, new_s) ==
    [c \in 1..3 |-> clamp(8 * current[c] + (old_s[c] - new_s[c]), 8)]

\* The updates of the sources k..6 of p among those visited before visit n.
RECURSIVE Gather(_, _, _, _)
Gather(p, n, k, current) ==
    IF k > 6 THEN current
    ELSE LET s == Sources(p)[k]
         IN IF is_in_bounds(size, s[1], s[2]) /\ WasVisited(s) /\ VisitOf(s) < n
            THEN Gather(p, n, k + 1,
                        Update(current, visits[VisitOf(s)].old, image[s]))
            ELSE Gather(p, n, k + 1, current)

InBoundsSources(p) ==
    { s \in { Sources(p)[k] : k \in 1..6 } : is_in_bounds(size, s[1], s[2]) }

C9_Sequential ==
    Dithering =>
       /\ \A i \in DOMAIN visits : VisitOf(visits[i].pos) = i
       /\ \A i \in DOMAIN visits :
             LET p == visits[i].pos
                 g == Gather(p, i, 1, source[p])
             IN /\ \A s \in InBoundsSources(p) : VisitOf(s) < i
                /\ \A c \in 1..3 : visits[i].old[c] = g[c]
       /\ \A p \in Positions(size) :
             ~WasVisited(p) =>
                LET g == Gather(p, Len(visits) + 1, 1, source[p])
                IN \A c \in 1..3 : image[p][c] = g[c]

\* All the errors of p's in-bounds sources added at once, then clamped.
RECURSIVE ErrorSum(_, _, _)
ErrorSum(p, c, k) ==
    IF k > 6 THEN 0
    ELSE LET s == Sources(p)[k]
         IN (IF is_in_bounds(size, s[1], s[2]) /\ WasVisited(s)
             THEN visits[VisitOf(s)].old[c] - image[s][c] ELSE 0)
            + ErrorSum(p, c, k + 1)

\* A visited pixel with all six sources inside the raster whose value when
\* visited is not what one batched update would have given.
C9_Witness ==
    /\ Dithering
    /\ \E i \in DOMAIN visits :
          LET p == visits[i].pos
          IN /\ Cardinality(InBoundsSources(p)) = 6
             /\ \E c \in 1..3 :
                   visits[i].old[c] # clamp(8 * source[p][c] + ErrorSum(p, c, 1), 8)

(***************************************************************************)
(* C10.  With every input channel in [0, 255], every channel of every      *)
(* pixel is an integer in [0, 255] in every state of diffuse_image; a      *)
(* channel at 255 that receives a positive error stays 255 and a channel   *)
(* at 0 that receives a negative error stays 0.                            *)
(***************************************************************************)
C10_InRange ==
    \A p \in DOMAIN image : \A c \in 1..3 : image[p][c] \in 0..255

C10_Step ==
    PixelStep =>
       \A q \in Kernel(size, x, y) : \A c \in 1..3 :
          LET e == image[<<x, y>>][c] - image'[<<x, y>>][c]
          IN /\ (image[q][c] = 255 /\ e > 0) => image'[q][c] = 255
             /\ (image[q][c] = 0 /\ e < 0) => image'[q][c] = 0

C10_Saturates == [](C10_InRange) /\ [][C10_Step]_vars

\* The first pixel left a positive error and its right neighbour, at 255,
\* stayed at 255.
C10_Witness ==
    /\ Dithering
    /\ Len(visits) = 1
    /\ size[1] >= 2
    /\ \E c \in 1..3 :
          /\ visits[1].old[c] > image[<<0, 0>>][c]
          /\ source[<<1, 0>>][c] = 255
          /\ image[<<1, 0>>][c] = 255

(***************************************************************************)
(* C11.  diffuse_image is idempotent: on a raster whose pixels are all     *)
(* entries of the palette it changes no pixel.  Every pixel is found       *)
(* holding its original value when visited, is replaced by itself, and     *)
(* leaves a zero error, so the raster equals the input in every state of   *)
(* the run and on return.                                                  *)
(***************************************************************************)
AllPalette == \A p \in DOMAIN source : source[p] \in Entries(target_palette)

C11_Idempotent ==
    (Dithering /\ AllPalette) =>
       /\ image = source
       /\ \A i \in DOMAIN visits :
             /\ visits[i].old = source[visits[i].pos]
             /\ get_closest_colour(target_palette, visits[i].old) = visits[i].old

\* A full-size raster of two different entries of the seven-colour palette has
\* been run through diffuse_image to the end and is as it was.
C11_Witness ==
    /\ pc = "done" /\ Dithering /\ AllPalette
    /\ target_palette = TARGET_PALETTE
    /\ size = <<MaxWidth, MaxHeight>>
    /\ Len(visits) = MaxWidth * MaxHeight
    /\ \E p, q \in DOMAIN source : source[p] # source[q]
    /\ image = source

====
